---- MODULE Spec2Model ----
(***************************************************************************)
(* Model of client.cpp: the client of the FIFO request-channel protocol.   *)
(* The client parses its options, opens the control channel, optionally    *)
(* asks for a private channel, requests data points, transfers a file in   *)
(* capacity-bounded chunks and finally writes QUIT.                        *)
(*                                                                         *)
(* Every cwrite and every cread of main is one step.  The server is the    *)
(* environment: it answers a request when the client reads the reply.      *)
(* Time values are kept in milliseconds (0.004 s = 4).                     *)
(***************************************************************************)
EXTENDS Integers, Sequences, FiniteSets, TLC

(* ---------------------------- bounds ----------------------------------- *)
MaxFileLen == 4     \* longest file the server holds
MaxCap == 2         \* largest small value given to -m
MaxNegCap == 1      \* -m values down to -MaxNegCap
MaxReqs == 10       \* cap on the chunk requests recorded (endless loop when -m 0)
MaxByte == 1        \* file bytes are 0..MaxByte
MaxVal == 1         \* ecg values are 0..MaxVal

(* ------------------------ program constants ---------------------------- *)
DefaultP == -1            \* int p = -1
DefaultT == -1            \* double t = -1
DefaultE == 1             \* int e = 1
NumPoints == 1000         \* for (double i = 0; i < 1000; i++)
TimeStep == 4             \* double time = i * 0.004   (milliseconds)
NameBufSize == 30         \* char buf2[30]; chan.cread(buf2, 30)
SizeofDouble == 8         \* sizeof(double)
SizeofInt64 == 8          \* sizeof(__int64_t)
MAX_MESSAGE == 256        \* common.h: default buffer capacity
SizeofMessageType == 4    \* common.h: sizeof(MESSAGE_TYPE)
SizeofDatamsg == 24       \* common.h: sizeof(datamsg)
SizeofFilemsg == 24       \* common.h: sizeof(filemsg)

(* --------------------------- value sets -------------------------------- *)
Control == "control"
NewNames == {"data1_", "data2_"}
Channels == {Control} \cup NewNames
Persons == {DefaultP, 0}
Times == {DefaultT, 0, TimeStep}
Ecgs == {DefaultE, 2}
Filenames == {"", "f"}
ExampleCapacities == {1024}
Capacities == ((0 - MaxNegCap)..MaxCap) \cup {MAX_MESSAGE} \cup ExampleCapacities
Bytes == 0..MaxByte
NoVal == -1
NotFound == <<-1>>
Files == UNION {[1..n -> Bytes] : n \in 0..MaxFileLen}
ExampleFile == [k \in 1..2500 |-> k % (MaxByte + 1)]
ServerFiles == Files \cup {NotFound, ExampleFile}

VARIABLES
  pc,                \* position in main
  p, t, e, c, filename, buffercapacity,   \* the parsed options
  server_args,       \* the argument vector the server was launched with
  active_chan,       \* name of the channel active_chan points to
  new_channel_name,  \* the name read at line 72
  opened, closed,    \* channel objects constructed / destroyed
  reply, i, val1, val2, rows, lastrow,    \* data point state and the csv output
  filelen, offset, length, ofs2, created, \* file transfer state and output files
  srvfile,           \* the file the server holds under filename
  srvchans,          \* the channel names the server has created
  pending,           \* per channel: requests written and not yet answered
  lastReq, nwrite, sent, nkind,           \* the requests written
  lastRead, nread,                        \* the replies read
  fileReqs                                \* the (offset, length) of the chunk requests

opts == <<p, t, e, c, filename, buffercapacity, server_args>>
chans == <<active_chan, new_channel_name, opened, closed, srvchans>>
data == <<reply, i, val1, val2, rows, lastrow>>
file == <<filelen, offset, length, ofs2, created, srvfile, fileReqs>>
wr == <<lastReq, nwrite, sent, nkind>>
rd == <<lastRead, nread>>
vars == <<pc, opts, chans, data, file, pending, wr, rd>>

(* ---------------------------- messages --------------------------------- *)
NoMsg == [kind |-> "NONE", person |-> 0, time |-> 0, ecg |-> 0,
          offset |-> 0, length |-> 0, name |-> "", size |-> 0]
Kinds == {"NEWCHANNEL", "DATAPOINT", "FILE", "QUIT"}

NewChannelMsg == [NoMsg EXCEPT !.kind = "NEWCHANNEL", !.size = SizeofMessageType]
QuitMsg == [NoMsg EXCEPT !.kind = "QUIT", !.size = SizeofMessageType]
datamsg(person, seconds, ecgno) ==
  [NoMsg EXCEPT !.kind = "DATAPOINT", !.person = person, !.time = seconds,
                !.ecg = ecgno, !.size = SizeofDatamsg]
filemsg(off, len, name) ==
  [NoMsg EXCEPT !.kind = "FILE", !.offset = off, !.length = len, !.name = name,
                !.size = SizeofFilemsg + Len(name) + 1]

(* --------------------------- the channel ------------------------------- *)
cwrite(ch, msg) ==
  /\ pending' = [pending EXCEPT ![ch] = @ + (IF msg.kind = "QUIT" THEN 0 ELSE 1)]
  /\ lastReq' = [lastReq EXCEPT ![ch] = msg]
  /\ nwrite' = [nwrite EXCEPT ![ch] = @ + 1]
  /\ sent' = sent \cup {<<ch, msg.kind>>}
  /\ nkind' = [nkind EXCEPT ![msg.kind] = @ + 1]
  /\ UNCHANGED rd

cread(ch, n) ==
  /\ pending' = [pending EXCEPT ![ch] = @ - 1]
  /\ lastRead' = [chan |-> ch, size |-> n, req |-> lastReq[ch]]
  /\ nread' = [nread EXCEPT ![ch] = @ + 1]
  /\ UNCHANGED wr

noio == UNCHANGED <<pending, wr, rd>>

(* ---------------------------- the server ------------------------------- *)
ServerEcg(person, seconds, ecgno) ==
  (person + (seconds \div TimeStep) + ecgno) % (MaxVal + 1)
ServerFileLength(f) == IF f = NotFound THEN -1 ELSE Len(f)
Min(a, b) == IF a < b THEN a ELSE b
ServerChunk(f, off, len) ==
  IF f = NotFound THEN <<>>
  ELSE [k \in 1..(Min(off + len, Len(f)) - off) |-> f[off + k]]

(* ------------------------- pure computations --------------------------- *)
\* a chunk loop that forgets to clip the last chunk
ChunkLength_NoClip(off, flen, cap) == cap
ChunkLength(off, flen, cap) == IF off + cap > flen THEN flen - off ELSE cap
\* a chunk loop that skips one byte after every chunk
NextOffset_Gap(off, cap) == off + cap + 1
NextOffset(off, cap) == off + cap
TimeOf(k) == k * TimeStep

\* std::to_string(int): the decimal digits, with a leading '-' when negative
DigitChars == <<"0", "1", "2", "3", "4", "5", "6", "7", "8", "9">>
RECURSIVE Digits(_)
Digits(n) ==
  IF n < 10 THEN <<DigitChars[n + 1]>>
  ELSE Append(Digits(n \div 10), DigitChars[(n % 10) + 1])
\* a launch that passes the default capacity whatever -m was given
to_string_Default(n) == Digits(MAX_MESSAGE)
to_string(n) == IF n < 0 THEN <<"-">> \o Digits(0 - n) ELSE Digits(n)
ServerArgs(cap) == <<"./server", "-m", to_string(cap)>>

Init ==
  /\ pc = "start"
  /\ p \in Persons /\ t \in Times /\ e \in Ecgs /\ c \in BOOLEAN
  /\ filename \in Filenames /\ buffercapacity \in Capacities
  /\ server_args = ServerArgs(buffercapacity)
  /\ active_chan = Control /\ new_channel_name = ""
  /\ opened = {Control} /\ closed = {} /\ srvchans = {Control}
  /\ reply = NoVal /\ i = 0 /\ val1 = NoVal /\ val2 = NoVal
  /\ rows = 0 /\ lastrow = <<>>
  /\ filelen = 0 /\ offset = 0 /\ length = 0 /\ ofs2 = <<>> /\ created = {}
  /\ srvfile = <<>> /\ fileReqs = <<>>
  /\ pending = [ch \in Channels |-> 0]
  /\ lastReq = [ch \in Channels |-> NoMsg]
  /\ nwrite = [ch \in Channels |-> 0]
  /\ sent = {}
  /\ nkind = [k \in Kinds |-> 0]
  /\ lastRead = [chan |-> "", size |-> 0, req |-> NoMsg]
  /\ nread = [ch \in Channels |-> 0]

(* ------------------- 3.4 new channel creation request ------------------ *)
NoNewChannel ==
  /\ pc = "start" /\ ~c
  /\ pc' = "data"
  /\ noio /\ UNCHANGED <<opts, chans, data, file>>

NewChannelWrite ==
  /\ pc = "start" /\ c /\ buffercapacity >= 0
  /\ cwrite(Control, NewChannelMsg)
  /\ pc' = "nc_read"
  /\ UNCHANGED <<opts, chans, data, file>>

\* a client that reads the new name and keeps using the control channel
NewChannelRead_NoSwitch ==
  /\ pc = "nc_read"
  /\ \E name \in NewNames :
       /\ srvchans' = srvchans \cup {name}
       /\ new_channel_name' = name
  /\ opened' = opened \cup {new_channel_name'}
  /\ active_chan' = active_chan
  /\ cread(Control, NameBufSize)
  /\ pc' = "data"
  /\ UNCHANGED <<opts, closed, data, file>>

NewChannelRead ==
  /\ pc = "nc_read"
  /\ \E name \in NewNames :
       /\ srvchans' = srvchans \cup {name}
       /\ new_channel_name' = name
  /\ opened' = opened \cup {new_channel_name'}
  /\ active_chan' = new_channel_name'
  /\ cread(Control, NameBufSize)
  /\ pc' = "data"
  /\ UNCHANGED <<opts, closed, data, file>>

(* ----------------------- 4.2 requesting data points -------------------- *)
NoData ==
  /\ pc = "data" /\ ~(p >= 0)
  /\ pc' = "file"
  /\ noio /\ UNCHANGED <<opts, chans, data, file>>

DataWrite ==
  /\ pc = "data" /\ p >= 0 /\ t >= 0 /\ buffercapacity >= 0
  /\ cwrite(active_chan, datamsg(p, t, e))
  /\ pc' = "data_read"
  /\ UNCHANGED <<opts, chans, data, file>>

DataRead ==
  /\ pc = "data_read"
  /\ reply' = ServerEcg(p, t, e)
  /\ cread(active_chan, SizeofDouble)
  /\ pc' = "file"
  /\ UNCHANGED <<opts, chans, i, val1, val2, rows, lastrow, file>>

BulkOpen ==
  /\ pc = "data" /\ p >= 0 /\ ~(t >= 0)
  /\ created' = created \cup {"csv"}
  /\ i' = 0
  /\ pc' = "bulk_w1"
  /\ noio
  /\ UNCHANGED <<opts, chans, reply, val1, val2, rows, lastrow,
                 filelen, offset, length, ofs2, srvfile, fileReqs>>

BulkOpenFail ==
  /\ pc = "data" /\ p >= 0 /\ ~(t >= 0)
  /\ pc' = "exit1"
  /\ closed' = closed \cup {Control}
  /\ noio
  /\ UNCHANGED <<opts, active_chan, new_channel_name, opened, srvchans, data, file>>

Bulk1Write ==
  /\ pc = "bulk_w1" /\ i < NumPoints /\ buffercapacity >= 0
  /\ cwrite(active_chan, datamsg(p, TimeOf(i), 1))
  /\ pc' = "bulk_r1"
  /\ UNCHANGED <<opts, chans, data, file>>

\* a bulk loop that does not read the reply for ecg 1
Bulk1Read_NoRead ==
  /\ pc = "bulk_r1"
  /\ pc' = "bulk_w2"
  /\ noio /\ UNCHANGED <<opts, chans, data, file>>

Bulk1Read ==
  /\ pc = "bulk_r1"
  /\ val1' = ServerEcg(p, TimeOf(i), 1)
  /\ cread(active_chan, SizeofDouble)
  /\ pc' = "bulk_w2"
  /\ UNCHANGED <<opts, chans, reply, i, val2, rows, lastrow, file>>

\* a bulk loop that asks for ecg 1 twice
Bulk2Write_Ecg1 ==
  /\ pc = "bulk_w2"
  /\ cwrite(active_chan, datamsg(p, TimeOf(i), 1))
  /\ pc' = "bulk_r2"
  /\ UNCHANGED <<opts, chans, data, file>>

Bulk2Write ==
  /\ pc = "bulk_w2"
  /\ cwrite(active_chan, datamsg(p, TimeOf(i), 2))
  /\ pc' = "bulk_r2"
  /\ UNCHANGED <<opts, chans, data, file>>

Bulk2Read ==
  /\ pc = "bulk_r2"
  /\ LET v == ServerEcg(p, TimeOf(i), 2) IN
       /\ val2' = v
       /\ lastrow' = <<TimeOf(i), val1, v>>
  /\ rows' = rows + 1
  /\ i' = i + 1
  /\ cread(active_chan, SizeofDouble)
  /\ pc' = "bulk_w1"
  /\ UNCHANGED <<opts, chans, reply, val1, file>>

BulkDone ==
  /\ pc = "bulk_w1" /\ ~(i < NumPoints)
  /\ pc' = "file"
  /\ noio /\ UNCHANGED <<opts, chans, data, file>>

(* -------------------------- 4.3 requesting files ----------------------- *)
NoFile ==
  /\ pc = "file" /\ ~(Len(filename) > 0)
  /\ pc' = "quit"
  /\ noio /\ UNCHANGED <<opts, chans, data, file>>

FileProbeWrite ==
  /\ pc = "file" /\ Len(filename) > 0
  /\ cwrite(active_chan, filemsg(0, 0, filename))
  /\ pc' = "probe_read"
  /\ UNCHANGED <<opts, chans, data, file>>

FileProbeRead ==
  /\ pc = "probe_read"
  /\ \E f \in ServerFiles :
       /\ srvfile' = f
       /\ filelen' = ServerFileLength(f)
  /\ cread(active_chan, SizeofInt64)
  /\ pc' = "file_open"
  /\ UNCHANGED <<opts, chans, data, offset, length, ofs2, created, fileReqs>>

FileOpen ==
  /\ pc = "file_open"
  /\ created' = created \cup {"file"}
  /\ ofs2' = <<>>
  /\ offset' = 0
  /\ pc' = "chunk_loop"
  /\ noio
  /\ UNCHANGED <<opts, chans, data, filelen, length, srvfile, fileReqs>>

FileOpenFail ==
  /\ pc = "file_open"
  /\ pc' = "exit1"
  /\ closed' = closed \cup {Control}
  /\ noio
  /\ UNCHANGED <<opts, active_chan, new_channel_name, opened, srvchans, data, file>>

\* a chunk loop whose condition is offset <= filelen
FileChunkWrite_Le ==
  /\ pc = "chunk_loop" /\ offset <= filelen
  /\ Len(fileReqs) < MaxReqs
  /\ LET len == ChunkLength(offset, filelen, buffercapacity) IN
       /\ length' = len
       /\ fileReqs' = Append(fileReqs, <<offset, len>>)
       /\ cwrite(active_chan, filemsg(offset, len, filename))
  /\ pc' = "chunk_read"
  /\ UNCHANGED <<opts, chans, data, filelen, offset, ofs2, created, srvfile>>

FileChunkWrite ==
  /\ pc = "chunk_loop" /\ offset < filelen
  /\ Len(fileReqs) < MaxReqs
  /\ LET len == ChunkLength(offset, filelen, buffercapacity) IN
       /\ length' = len
       /\ fileReqs' = Append(fileReqs, <<offset, len>>)
       /\ cwrite(active_chan, filemsg(offset, len, filename))
  /\ pc' = "chunk_read"
  /\ UNCHANGED <<opts, chans, data, filelen, offset, ofs2, created, srvfile>>

\* a chunk loop that reads the reply and does not write it to the output
FileChunkRead_NoAppend ==
  /\ pc = "chunk_read" /\ length >= 0
  /\ offset' = offset + buffercapacity
  /\ cread(active_chan, length)
  /\ pc' = "chunk_loop"
  /\ UNCHANGED <<opts, chans, data, filelen, length, ofs2, created, srvfile,
                 fileReqs>>

FileChunkRead ==
  /\ pc = "chunk_read" /\ length >= 0
  /\ ofs2' = ofs2 \o ServerChunk(srvfile, offset, length)
  /\ offset' = NextOffset(offset, buffercapacity)
  /\ cread(active_chan, length)
  /\ pc' = "chunk_loop"
  /\ UNCHANGED <<opts, chans, data, filelen, length, created, srvfile, fileReqs>>

FileLoopExit ==
  /\ pc = "chunk_loop" /\ ~(offset < filelen)
  /\ pc' = "quit"
  /\ noio /\ UNCHANGED <<opts, chans, data, file>>

(* --------------------------- closing the channel ----------------------- *)
\* a client that writes QUIT a second time before it returns
Quit_Twice ==
  /\ pc = "quit"
  /\ cwrite(active_chan, QuitMsg)
  /\ closed' = closed \cup {Control} \cup (IF c THEN {active_chan} ELSE {})
  /\ pc' = IF nkind["QUIT"] = 0 THEN "quit" ELSE "done"
  /\ UNCHANGED <<opts, active_chan, new_channel_name, opened, srvchans, data, file>>

Quit ==
  /\ pc = "quit"
  /\ cwrite(active_chan, QuitMsg)
  /\ closed' = closed \cup {Control} \cup (IF c THEN {active_chan} ELSE {})
  /\ pc' = "done"
  /\ UNCHANGED <<opts, active_chan, new_channel_name, opened, srvchans, data, file>>

(* ------------------ allocation failures and overflows ------------------ *)
\* new char[n] with n < 0 throws; nothing catches it and the process ends.
BadArrayLength ==
  /\ \/ pc = "start" /\ c /\ buffercapacity < 0
     \/ pc = "data" /\ p >= 0 /\ t >= 0 /\ buffercapacity < 0
     \/ pc = "bulk_w1" /\ i < NumPoints /\ buffercapacity < 0
     \/ pc = "chunk_read" /\ length < 0
  /\ pc' = "aborted"
  /\ noio /\ UNCHANGED <<opts, chans, data, file>>

\* memcpy of a message into a buffer of buffercapacity bytes that is too
\* small writes past the allocation.  The run may go on, or crash: at the
\* overflowing memcpy itself, before the request is written, or where the
\* allocator next meets the damaged buffer: operator new of line 76, or
\* delete[] at lines 78, 91 and 124-125.  Buffers of the file section have
\* the exact size.
HeapOverflowCrash ==
  /\ \/ pc = "start" /\ c /\ 0 <= buffercapacity
          /\ buffercapacity < SizeofMessageType
     \/ pc = "data" /\ c /\ 0 <= buffercapacity
          /\ buffercapacity < SizeofMessageType
     \/ pc = "data" /\ p >= 0 /\ t >= 0 /\ 0 <= buffercapacity
          /\ buffercapacity < SizeofDatamsg
     \/ pc = "file" /\ p >= 0 /\ t >= 0 /\ 0 <= buffercapacity
          /\ buffercapacity < SizeofDatamsg
     \/ pc = "bulk_w1" /\ i < NumPoints /\ 0 <= buffercapacity
          /\ buffercapacity < SizeofDatamsg
     \/ pc = "bulk_w2" /\ 0 <= buffercapacity
          /\ buffercapacity < SizeofDatamsg
  /\ pc' = "aborted"
  /\ noio /\ UNCHANGED <<opts, chans, data, file>>

\* The name is read (line 72) and copied (line 74); the crash is in operator
\* new of line 76, before the new channel is opened and made active.
NewChannelReadCrash ==
  /\ pc = "nc_read"
  /\ 0 <= buffercapacity /\ buffercapacity < SizeofMessageType
  /\ \E name \in NewNames :
       /\ srvchans' = srvchans \cup {name}
       /\ new_channel_name' = name
  /\ cread(Control, NameBufSize)
  /\ pc' = "aborted"
  /\ UNCHANGED <<opts, active_chan, opened, closed, data, file>>

\* The second value is read and the row written (lines 119-122); the crash
\* is at delete[] of lines 124-125, before the i++ of the loop.
Bulk2ReadCrash ==
  /\ pc = "bulk_r2"
  /\ 0 <= buffercapacity /\ buffercapacity < SizeofDatamsg
  /\ LET v == ServerEcg(p, TimeOf(i), 2) IN
       /\ val2' = v
       /\ lastrow' = <<TimeOf(i), val1, v>>
  /\ rows' = rows + 1
  /\ cread(active_chan, SizeofDouble)
  /\ pc' = "aborted"
  /\ UNCHANGED <<opts, chans, reply, i, val1, file>>

Next ==
  \/ NoNewChannel \/ NewChannelWrite \/ NewChannelRead
  \/ NoData \/ DataWrite \/ DataRead
  \/ BulkOpen \/ BulkOpenFail
  \/ Bulk1Write \/ Bulk1Read \/ Bulk2Write \/ Bulk2Read \/ BulkDone
  \/ NoFile \/ FileProbeWrite \/ FileProbeRead
  \/ FileOpen \/ FileOpenFail
  \/ FileChunkWrite \/ FileChunkRead \/ FileLoopExit
  \/ Quit
  \/ BadArrayLength \/ HeapOverflowCrash
  \/ NewChannelReadCrash \/ Bulk2ReadCrash

Spec == Init /\ [][Next]_vars

\* main is sequential: whenever a statement can run it does, and the server
\* answers every request the client reads the reply of.
FairSpec == Spec /\ WF_vars(Next)

\* the value main returns; -1 while it runs or after an abort
ExitStatus == CASE pc = "done" -> 0 [] pc = "exit1" -> 1 [] OTHER -> -1

(* ------------------------------ claims --------------------------------- *)
LoopExited == pc \in {"quit", "done"} /\ Len(filename) > 0
ReqOffset(k) == fileReqs[k][1]
ReqLength(k) == fileReqs[k][2]
RECURSIVE SumLengths(_)
SumLengths(n) == IF n = 0 THEN 0 ELSE SumLengths(n - 1) + ReqLength(n)

\* C1: on every channel at most one request is unanswered: each request
\* (NEWCHANNEL, DATAPOINT, FILE probe, FILE chunk) is followed by exactly one
\* cread before the next cwrite on that channel, QUIT included.
OneInFlight ==
  \A ch \in Channels :
    /\ pending[ch] \in {0, 1}
    /\ nwrite[ch] - nread[ch] - pending[ch] \in {0, 1}
    /\ lastReq[ch].kind = "QUIT" => pending[ch] = 0
    /\ nwrite[ch] > 0 => ch \in opened

OneInFlightWitness ==
  \E ch \in NewNames :
    /\ pending[ch] = 1 /\ nread[ch] >= 3
    /\ lastReq[ch].kind = "FILE" /\ lastReq[ch].offset > 0
    /\ nkind["DATAPOINT"] >= 1
    /\ nread[Control] = 1

\* C2: the chunk requests start at offset 0, each starts where the one
\* before ended, each has length min(capacity, L - offset), and when the
\* loop has ended the last one ends at L (no request at all when L <= 0).
ChunkCompleteness ==
  LET n == Len(fileReqs) IN
    /\ n >= 1 => ReqOffset(1) = 0
    /\ \A k \in 1..(n - 1) : ReqOffset(k + 1) = ReqOffset(k) + ReqLength(k)
    /\ \A k \in 1..n : ReqLength(k) = Min(buffercapacity, filelen - ReqOffset(k))
    /\ LoopExited /\ filelen > 0 =>
         n >= 1 /\ ReqOffset(n) + ReqLength(n) = filelen
    /\ LoopExited /\ filelen <= 0 => n = 0

ChunkCompletenessWitness ==
  /\ LoopExited /\ Len(fileReqs) = 2
  /\ ReqLength(1) = buffercapacity /\ ReqLength(2) < buffercapacity
  /\ ReqLength(2) >= 1

\* C3 as stated: for L >= 0 and C >= 1 the offset is L when the loop ends.
OffsetAtExitIsLength ==
  LoopExited /\ filelen >= 0 /\ buffercapacity >= 1 => offset = filelen

\* C3 amended: the offset advances by the capacity after every chunk, so
\* for L >= 0 and C >= 1 the offset when the loop ends is the smallest
\* multiple of C that is >= L (it is L exactly when C divides L); the
\* lengths of the chunks requested sum to L.
OffsetAtExitIsCeiling ==
  /\ pc \in {"chunk_loop", "chunk_read"} /\ buffercapacity >= 1 =>
       offset = buffercapacity * (Len(fileReqs) - (IF pc = "chunk_read" THEN 1 ELSE 0))
  /\ LoopExited /\ filelen >= 0 /\ buffercapacity >= 1 =>
       /\ offset % buffercapacity = 0
       /\ filelen <= offset /\ offset < filelen + buffercapacity
       /\ (offset = filelen) <=> (filelen % buffercapacity = 0)
       /\ SumLengths(Len(fileReqs)) = filelen

OffsetAtExitWitness ==
  /\ LoopExited /\ buffercapacity = 2 /\ filelen = 3 /\ offset = 4
  /\ Len(fileReqs) = 2

\* C4: with a server that answers FILE(offset, length, name) with the bytes
\* [offset, offset+length) of the file, the bytes written to the output are
\* the file's bytes, in order, for every L and every capacity C >= 1.
OutputIsFile ==
  buffercapacity >= 1 /\ srvfile # NotFound =>
    /\ pc = "chunk_loop" => ofs2 = SubSeq(srvfile, 1, Min(offset, filelen))
    /\ LoopExited => ofs2 = srvfile

OutputIsFileWitness ==
  /\ LoopExited /\ srvfile # NotFound /\ Len(srvfile) = 3
  /\ Len(fileReqs) = 2 /\ ofs2 = srvfile /\ ofs2[1] # ofs2[2]

\* C5: every FILE request sent inside the chunk loop has length >= 1, for
\* every file length the server reports and every capacity -m accepts.
NoZeroLengthChunk ==
  \A k \in 1..Len(fileReqs) : ReqLength(k) >= 1

\* C6: the byte count of every cwrite is at most the capacity, and the
\* length field of every FILE chunk request is at most the capacity.
CapacityBoundsWrites ==
  /\ \A ch \in Channels :
       lastReq[ch].kind # "NONE" => lastReq[ch].size <= buffercapacity
  /\ \A k \in 1..Len(fileReqs) : ReqLength(k) <= buffercapacity

\* the outcome of transferring an existing file of length 0
NormalEmptyTransfer ==
  /\ ExitStatus = 0 /\ "file" \in created /\ ofs2 = <<>>
  /\ nkind["FILE"] = 1 /\ nkind["QUIT"] = 1

\* C7: when the length probe is answered with the not-found sentinel the
\* client does not complete as it does for an existing file of length 0
\* (output file created and left empty, QUIT written, normal return).
FileNotFoundPropagated ==
  Len(filename) > 0 /\ filelen < 0 => ~NormalEmptyTransfer

\* the reply size the protocol fixes for a request
ExpectedReplySize(req) ==
  CASE req.kind = "DATAPOINT" -> SizeofDouble
    [] req.kind = "FILE" /\ req.offset = 0 /\ req.length = 0 -> SizeofInt64
    [] req.kind = "FILE" -> req.length
    [] OTHER -> NameBufSize

\* C8: the size of each reply read is fixed by the request written just
\* before on that channel: 8 bytes after DATAPOINT, 8 bytes after
\* FILE(0,0,name), `length` bytes after any other FILE(offset,length,name).
ReplyShape ==
  lastRead.req.kind \in {"DATAPOINT", "FILE"} =>
    lastRead.size = ExpectedReplySize(lastRead.req)

\* the channel the requests are to be sent on
UsedChannel == IF c THEN new_channel_name ELSE Control

\* C9: with -c the client sends NEWCHANNEL on the control channel, opens the
\* channel named as the server replied, and sends every DATAPOINT, FILE and
\* QUIT on it and none on the control channel; without -c everything goes
\* on the control channel; the active channel does not change afterwards.
ChannelSwitch ==
  /\ opened \subseteq srvchans
  /\ \A m \in sent :
       /\ m[2] = "NEWCHANNEL" => c /\ m[1] = Control
       /\ m[2] \in {"DATAPOINT", "FILE", "QUIT"} =>
            m[1] = UsedChannel /\ m[1] = active_chan /\ m[1] \in srvchans
  /\ c /\ (nkind["DATAPOINT"] + nkind["FILE"] + nkind["QUIT"] > 0) =>
       <<Control, "NEWCHANNEL">> \in sent /\ nwrite[Control] = 1
  /\ pc \notin {"start", "nc_read", "aborted"} => active_chan = UsedChannel
  /\ ~c => active_chan = Control /\ opened = {Control}

ChannelSwitchWitness ==
  /\ c /\ pc = "done" /\ active_chan = "data2_"
  /\ {<<"data2_", "DATAPOINT">>, <<"data2_", "FILE">>, <<"data2_", "QUIT">>}
       \subseteq sent
  /\ nwrite[Control] = 1

\* C10: on a run that reaches the end QUIT has been written exactly once, on
\* the active channel, with every request answered; DATAPOINT requests
\* precede all FILE requests; nothing is read or written after the QUIT.
QuitIsFinal ==
  /\ [](pc = "done" =>
         /\ nkind["QUIT"] = 1
         /\ lastReq[active_chan].kind = "QUIT"
         /\ \A ch \in Channels : pending[ch] = 0)
  /\ [][nkind["QUIT"] >= 1 => UNCHANGED <<nwrite, nread>>]_vars
  /\ [][nkind'["QUIT"] > nkind["QUIT"] => \A ch \in Channels : pending[ch] = 0]_vars
  /\ [][nkind'["DATAPOINT"] > nkind["DATAPOINT"] => nkind["FILE"] = 0]_vars

QuitIsFinalWitness ==
  /\ pc = "done" /\ nkind["QUIT"] = 1
  /\ nkind["DATAPOINT"] = 2 * NumPoints /\ nkind["FILE"] >= 3

\* main has returned (normally or by an early return 1)
Exited == pc \in {"done", "exit1"}

\* C11: every channel object the client opened is closed before the process
\* exits, on every exit path, the early returns included.
ScopedRelease ==
  Exited => closed = opened

\* C13: on every run that reaches the end of the client, with or without -c,
\* QUIT has been written on the control channel, and every channel the
\* client opened has received its own QUIT.
QuitOnEveryChannel ==
  pc = "done" => \A ch \in opened : <<ch, "QUIT">> \in sent

\* C14: on every path by which the client exits, the early returns
\* included, QUIT has been written on the active channel before the exit.
QuitOnEveryExit ==
  Exited => <<active_chan, "QUIT">> \in sent

BulkMode == p >= 0 /\ ~(t >= 0)
SingleMode == p >= 0 /\ t >= 0
AfterData == pc \in {"file", "probe_read", "file_open", "chunk_loop",
                     "chunk_read", "quit", "done"}
                \/ (pc = "exit1" /\ nkind["FILE"] > 0)
RowOf(k) == <<TimeOf(k), ServerEcg(p, TimeOf(k), 1), ServerEcg(p, TimeOf(k), 2)>>

\* the order of the bulk requests: index i = 0..999 increasing, for each
\* index ecg 1, its reply, ecg 2, its reply, then the row of that index
BulkOrder ==
  /\ BulkMode /\ pc \in {"bulk_w1", "bulk_r1", "bulk_w2", "bulk_r2"} =>
       /\ i \in 0..NumPoints /\ rows = i
       /\ pc = "bulk_w1" => nkind["DATAPOINT"] = 2 * i /\ pending[active_chan] = 0
       /\ pc = "bulk_r1" =>
            /\ i < NumPoints /\ nkind["DATAPOINT"] = 2 * i + 1
            /\ lastReq[active_chan] = datamsg(p, TimeOf(i), 1)
       /\ pc = "bulk_w2" =>
            /\ nkind["DATAPOINT"] = 2 * i + 1 /\ pending[active_chan] = 0
            /\ val1 = ServerEcg(p, TimeOf(i), 1)
       /\ pc = "bulk_r2" =>
            /\ nkind["DATAPOINT"] = 2 * i + 2
            /\ lastReq[active_chan] = datamsg(p, TimeOf(i), 2)
  /\ BulkMode /\ rows >= 1 => lastrow = RowOf(rows - 1)
  /\ BulkMode => nkind["DATAPOINT"] \in {2 * rows, 2 * rows + 1, 2 * rows + 2}
  /\ BulkMode => nkind["DATAPOINT"] <= 2 * NumPoints /\ rows <= NumPoints
  /\ SingleMode =>
       /\ rows = 0 /\ nkind["DATAPOINT"] <= 1
       /\ pc = "data" => nkind["DATAPOINT"] = 0
       /\ pc = "data_read" =>
            nkind["DATAPOINT"] = 1 /\ lastReq[active_chan] = datamsg(p, t, e)
  /\ ~(p >= 0) => nkind["DATAPOINT"] = 0 /\ rows = 0

\* C15 as stated: with p >= 0 and t < 0 the client issues exactly 2000
\* DATAPOINT requests, in index order, ecg 1 then ecg 2, and writes one row
\* per index; with p >= 0 and t >= 0 it issues exactly one DATAPOINT (p,t,e).
BulkIssuesAll ==
  /\ BulkOrder
  /\ BulkMode /\ Exited => nkind["DATAPOINT"] = 2 * NumPoints /\ rows = NumPoints
  /\ SingleMode /\ Exited => nkind["DATAPOINT"] = 1

\* C15 amended: the requests are issued in that order, and a run that gets
\* past the data point section has issued exactly 2000 DATAPOINT requests
\* and written 1000 rows in bulk mode, exactly one DATAPOINT (p,t,e) in
\* single mode; a run whose csv output cannot be opened issues none.
BulkIssuesAllWhenOpened ==
  /\ BulkOrder
  /\ BulkMode /\ AfterData =>
       nkind["DATAPOINT"] = 2 * NumPoints /\ rows = NumPoints /\ "csv" \in created
  /\ BulkMode /\ pc = "exit1" /\ ~AfterData =>
       nkind["DATAPOINT"] = 0 /\ rows = 0 /\ "csv" \notin created
  /\ SingleMode /\ AfterData => nkind["DATAPOINT"] = 1

BulkIssuesAllWitness ==
  /\ BulkMode /\ pc = "done" /\ nkind["DATAPOINT"] = 2 * NumPoints
  /\ rows = NumPoints /\ lastrow = RowOf(NumPoints - 1)
  /\ lastrow[2] # lastrow[3]

Ceil(a, b) == (a + b - 1) \div b
InChunkLoop == pc \in {"chunk_loop", "chunk_read"}

\* the number of round trips: never more than ceil(L/C) inside the loop,
\* exactly ceil(L/C) once the loop is left
RoundTripsCount ==
  buffercapacity >= 1 /\ filelen >= 0 =>
    /\ InChunkLoop =>
         /\ Len(fileReqs) <= Ceil(filelen, buffercapacity)
         /\ nkind["FILE"] = Len(fileReqs) + 1
         /\ pending[active_chan] = (IF pc = "chunk_read" THEN 1 ELSE 0)
    /\ LoopExited =>
         /\ Len(fileReqs) = Ceil(filelen, buffercapacity)
         /\ nkind["FILE"] = Ceil(filelen, buffercapacity) + 1
         /\ pending[active_chan] = 0
    /\ LoopExited /\ buffercapacity = 1024 /\ filelen = 2500 =>
         fileReqs = << <<0, 1024>>, <<1024, 1024>>, <<2048, 452>> >>

\* C12: for every L >= 0 and C >= 1 the chunk loop finishes, after exactly
\* ceil(L/C) request/reply round trips (none for L = 0); capacity 1024 and
\* length 2500 give the requests (0,1024), (1024,1024), (2048,452).
RoundTrips ==
  /\ []RoundTripsCount
  /\ (InChunkLoop /\ buffercapacity >= 1
        /\ Ceil(filelen, buffercapacity) <= MaxReqs) ~> LoopExited

RoundTripsWitness ==
  /\ LoopExited /\ buffercapacity = 1024 /\ filelen = 2500
  /\ Len(fileReqs) = 3 /\ Len(ofs2) = 2500

\* the integer a decimal argument string denotes
DigitValue(ch) == CHOOSE d \in 0..9 : DigitChars[d + 1] = ch
RECURSIVE DecimalValue(_)
DecimalValue(str) ==
  IF str = <<>> THEN 0
  ELSE 10 * DecimalValue(SubSeq(str, 1, Len(str) - 1)) + DigitValue(str[Len(str)])
ArgValue(str) ==
  IF str # <<>> /\ str[1] = "-" THEN 0 - DecimalValue(Tail(str))
  ELSE DecimalValue(str)

\* C16: the capacity passed to the server at launch (the -m argument of
\* ./server) is the capacity the client sizes every file chunk with, and
\* neither changes after option parsing.
CapacityShared ==
  /\ [](/\ Len(server_args) = 3
        /\ server_args[1] = "./server" /\ server_args[2] = "-m"
        /\ ArgValue(server_args[3]) = buffercapacity
        /\ \A k \in 1..Len(fileReqs) :
             ReqLength(k) = Min(ArgValue(server_args[3]), filelen - ReqOffset(k)))
  /\ [][buffercapacity' = buffercapacity /\ server_args' = server_args]_vars

CapacitySharedWitness ==
  /\ pc = "done" /\ buffercapacity = 1024
  /\ server_args[3] = <<"1", "0", "2", "4">>
  /\ Len(fileReqs) = 3 /\ ReqLength(1) = 1024

====
